---- MODULE Spec2Model ----
(***************************************************************************)
(* Electric-field simulator: the particle-state store, the animation       *)
(* timer and the callbacks that write them (manejar_particula,             *)
(* actualizar_grafico), with the collision test and the field evaluators   *)
(* the timer tick calls.                                                   *)
(*                                                                         *)
(* Numbers.  The program computes in floating point; the model computes in *)
(* fixed point.  Lengths are integers in lattice units of 0.025 m (1 m is  *)
(* 40 units), time is counted in steps of dt = 0.05 s, so a velocity is in *)
(* lattice units per step and vel * dt is a whole number of lattice units. *)
(* Charge is in units that make 1/epsilon_0 the integer InvEpsilon0.       *)
(* Quotients round toward zero, square roots round down.  Comparisons of a *)
(* norm with a length are made on the squares, so they are exact.          *)
(*                                                                         *)
(* A JSON number is the one-element sequence <<n>>; JSON null (Python      *)
(* None) is the empty sequence.  np.array(.., dtype=float) turns None into *)
(* NaN and the JSON encoder of the store turns NaN back into null, so NaN  *)
(* has the representation of None.                                         *)
(***************************************************************************)
EXTENDS Integers, Sequences, FiniteSets, TLC

VARIABLES
    estado,     \* dcc.Store "particle-state": the ParticleState record
    disabled,   \* dcc.Interval "animation-interval": its disabled property
    triggered,  \* ctx.triggered_id of the last callback run
    computed,   \* history: the geometry kinds a field has been computed for
    probe,      \* the arguments and result of a directly called pure function
    fig         \* the call of generar_figura the last callback run made, None
                \* if it made none

vars == <<estado, disabled, triggered, computed, probe, fig>>

----------------------------------------------------------------------------
(* Values *)

None == <<>>
NaN == <<>>
Num(n) == <<n>>
IsNum(v) == v # None

Abs(x) == IF x < 0 THEN -x ELSE x

\* Division rounding toward zero (the fixed-point reading of a float quotient).
Quot(a, b) == IF (a < 0) = (b < 0) THEN Abs(a) \div Abs(b) ELSE -(Abs(a) \div Abs(b))

RECURSIVE SqrtIter(_, _)
SqrtIter(n, g) ==
    LET h == (g + n \div g) \div 2 IN IF h >= g THEN g ELSE SqrtIter(n, h)


\* Float arithmetic with NaN propagation; a comparison with NaN is false.
FAdd(a, b) == IF IsNum(a) /\ IsNum(b) THEN Num(a[1] + b[1]) ELSE NaN
FSub(a, b) == IF IsNum(a) /\ IsNum(b) THEN Num(a[1] - b[1]) ELSE NaN
FMul(a, b) == IF IsNum(a) /\ IsNum(b) THEN Num(a[1] * b[1]) ELSE NaN
FQuot(a, b) == IF IsNum(a) /\ IsNum(b) THEN Num(Quot(a[1], b[1])) ELSE NaN
FLe(a, b) == IsNum(a) /\ IsNum(b) /\ a[1] <= b[1]
FLt(a, b) == IsNum(a) /\ IsNum(b) /\ a[1] < b[1]
FAbs(a) == IF IsNum(a) THEN Num(Abs(a[1])) ELSE NaN

\* 3-vectors of floats
Vec(x, y, z) == <<Num(x), Num(y), Num(z)>>
VecIsNum(v) == IsNum(v[1]) /\ IsNum(v[2]) /\ IsNum(v[3])
VAdd(a, b) == <<FAdd(a[1], b[1]), FAdd(a[2], b[2]), FAdd(a[3], b[3])>>
VSub(a, b) == <<FSub(a[1], b[1]), FSub(a[2], b[2]), FSub(a[3], b[3])>>
VScale(v, k) == <<FMul(v[1], k), FMul(v[2], k), FMul(v[3], k)>>
VZero == Vec(0, 0, 0)
VNaN == <<NaN, NaN, NaN>>

\* sum of the squares of the components: np.sum(r_vec**2)
SumSq(v) == FAdd(FAdd(FMul(v[1], v[1]), FMul(v[2], v[2])), FMul(v[3], v[3]))


\* norm(v) <= r and norm(v) > r for a length r, decided exactly on the squares
NormLe(v, r) == VecIsNum(v) /\ r >= 0 /\ SumSq(v)[1] <= r * r
NormGt(v, r) == VecIsNum(v) /\ (r < 0 \/ SumSq(v)[1] > r * r)

----------------------------------------------------------------------------
(* Geometry kinds *)

Kinds == {"charged_plate", "parallel_plates", "charged_sphere",
          "two_spheres", "charged_ring", "charged_cylinder"}

\* The dropdown is clearable: its value is then None, written "none" here.
NoKind == "none"

----------------------------------------------------------------------------
(* callbacks/particle_simulation.py: check_collision *)

DefaultRadius == 40
DefaultDistance == 40
RingTol == 2
CylinderHeight == 80
PlateTol == 2
PlateHalf == 20
PlatesHalf == 40

\* A JSON value that is not a number and that float() raises ValueError or
\* TypeError on: a string that does not read as a number, a list, an object.
NonNumeric == <<0, 0>>

\* A parameter that is 0 when it is missing or not a number.
ParamOrDefault_Zero(v, default) == IF Len(v) # 1 THEN 0 ELSE v[1]

\* float(params.get(key) or 1.0) inside try / except (ValueError, TypeError):
\* None and 0 are falsy, so both give the default, and so does a value float()
\* raises on
ParamOrDefault(v, default) == IF Len(v) # 1 \/ v[1] = 0 THEN default ELSE v[1]

\* x^2 + y^2 of a position, NaN when a coordinate is
Rho2(pos) == FAdd(FMul(pos[1], pos[1]), FMul(pos[2], pos[2]))

\* np.linalg.norm(pos - (cx2/2, 0, 0)) <= r, on doubled coordinates
NearCentre(pos, cx2, r) ==
    /\ VecIsNum(pos)
    /\ r >= 0
    /\ (2 * pos[1][1] - cx2) * (2 * pos[1][1] - cx2)
         + 4 * pos[2][1] * pos[2][1] + 4 * pos[3][1] * pos[3][1] <= 4 * r * r

check_collision(pos, geometry, params) ==
    LET x == pos[1]
        y == pos[2]
        z == pos[3]
        r == ParamOrDefault(params.radius, DefaultRadius)
        d == ParamOrDefault(params.distance, DefaultDistance)
        rho2 == Rho2(pos)
    IN  CASE geometry = "charged_sphere" -> NormLe(pos, r)
          [] geometry = "charged_ring" ->
               /\ FLt(FAbs(z), Num(RingTol))
               /\ IsNum(rho2)
               /\ r + RingTol > 0
               /\ rho2[1] < (r + RingTol) * (r + RingTol)
               /\ (r - RingTol < 0 \/ rho2[1] > (r - RingTol) * (r - RingTol))
          [] geometry = "charged_cylinder" ->
               /\ IsNum(rho2)
               /\ r >= 0
               /\ rho2[1] <= r * r
               /\ FLe(FMul(FAbs(z), Num(2)), Num(CylinderHeight))
          [] geometry = "charged_plate" ->
               /\ FLt(FAbs(z), Num(PlateTol))
               /\ FLe(FAbs(x), Num(PlateHalf))
               /\ FLe(FAbs(y), Num(PlateHalf))
          [] geometry = "parallel_plates" ->
               /\ FLe(FAbs(x), Num(PlatesHalf))
               /\ FLe(FAbs(y), Num(PlatesHalf))
               /\ (FLe(FMul(z, Num(2)), Num(-d)) \/ FLe(Num(d), FMul(z, Num(2))))
          [] geometry = "two_spheres" ->
               NearCentre(pos, d, r) \/ NearCentre(pos, -d, r)
          [] OTHER -> FALSE

----------------------------------------------------------------------------
(* geometries/*.py: the field of the source at one observation point *)

\* 1/epsilon_0 (epsilon_0 = 8.854e-12) in the model's unit of charge
InvEpsilon0 == 6000

\* Contributions of source elements are summed at this fixed-point resolution.
FieldFix == 10 * 100

\* A field evaluation returns a vector or raises.
Field(E) == [raised |-> FALSE, E |-> E]
Raised == [raised |-> TRUE, E |-> VZero]

SqrtGuess(n) ==
    IF n < 10000 THEN 100 ELSE IF n < 1000000 THEN 1000
    ELSE IF n < 100000000 THEN 10000 ELSE 46341

\* 100 * sqrt(r2), rounded down
Sqrt100(r2) == SqrtIter(10000 * r2, SqrtGuess(10000 * r2))

\* Vectors of integers, used where every coordinate is a number.
Raw(v) == <<v[1][1], v[2][1], v[3][1]>>
Wrap(r) == <<Num(r[1]), Num(r[2]), Num(r[3])>>
IAdd(a, b) == <<a[1] + b[1], a[2] + b[2], a[3] + b[3]>>
ISub(a, b) == <<a[1] - b[1], a[2] - b[2], a[3] - b[3]>>
ISumSq(r) == r[1] * r[1] + r[2] * r[2] + r[3] * r[3]
IZero == <<0, 0, 0>>

\* c * r_vec / r_mag**3 for r_mag > 0, where c is charge / (4 pi epsilon_0):
\* (c / r^2) * r_vec / r, each quotient rounded toward zero.
CoulombAt(t, rm, r_vec) ==
    <<Quot(t * r_vec[1] * 100, rm), Quot(t * r_vec[2] * 100, rm),
      Quot(t * r_vec[3] * 100, rm)>>

Coulomb(c, r_vec) == CoulombAt(Quot(c, ISumSq(r_vec)), Sqrt100(ISumSq(r_vec)), r_vec)

\* a / b rounded to the nearest integer
RoundQuot(a, b) == Quot(2 * a + (IF (a < 0) = (b < 0) THEN b ELSE -b), 2 * b)

\* 10000 * cos(2 pi i / 120), i = 0..119
CosTable ==
    <<
      10000, 9986, 9945, 9877, 9781, 9659, 9511, 9336, 9135, 8910, 8660, 8387,
      8090, 7771, 7431, 7071, 6691, 6293, 5878, 5446, 5000, 4540, 4067, 3584,
      3090, 2588, 2079, 1564, 1045, 523, 0, -523, -1045, -1564, -2079, -2588,
      -3090, -3584, -4067, -4540, -5000, -5446, -5878, -6293, -6691, -7071, -7431, -7771,
      -8090, -8387, -8660, -8910, -9135, -9336, -9511, -9659, -9781, -9877, -9945, -9986,
      -10000, -9986, -9945, -9877, -9781, -9659, -9511, -9336, -9135, -8910, -8660, -8387,
      -8090, -7771, -7431, -7071, -6691, -6293, -5878, -5446, -5000, -4540, -4067, -3584,
      -3090, -2588, -2079, -1564, -1045, -523, 0, 523, 1045, 1564, 2079, 2588,
      3090, 3584, 4067, 4540, 5000, 5446, 5878, 6293, 6691, 7071, 7431, 7771,
      8090, 8387, 8660, 8910, 9135, 9336, 9511, 9659, 9781, 9877, 9945, 9986
    >>

Cos120(i) == CosTable[(i % 120) + 1]
Sin120(i) == CosTable[((i + 90) % 120) + 1]

\* A sphere whose field is zero only strictly inside it.
compute_field_sphere_OpenBall(center, radius, sigma, obs) ==
    LET r_vec == VSub(obs, center)
        c == radius * radius * sigma * InvEpsilon0
    IN  IF VecIsNum(r_vec) /\ SumSq(r_vec)[1] < radius * radius THEN Field(VZero)
        ELSE IF ~VecIsNum(r_vec) THEN Field(VNaN)
        ELSE IF SumSq(r_vec)[1] = 0 THEN Raised
        ELSE Field(Wrap(Coulomb(c, Raw(r_vec))))

\* charged_sphere.py: compute_field_sphere for one observation point
compute_field_sphere(center, radius, sigma, obs) ==
    LET r_vec == VSub(obs, center)
        \* q_total / (4 pi epsilon_0) with q_total = 4 pi radius^2 sigma
        c == radius * radius * sigma * InvEpsilon0
    IN  IF NormLe(r_vec, radius) THEN Field(VZero)
        ELSE IF ~VecIsNum(r_vec) THEN Field(VNaN)
        ELSE IF SumSq(r_vec)[1] = 0 THEN Raised
        ELSE Field(Wrap(Coulomb(c, Raw(r_vec))))

\* two_spheres.py: compute_field_two_spheres for one observation point;
\* c1, c2 are q1, q2 / (4 pi epsilon_0)
compute_field_two_spheres(r1, r2, c1, c2, radius, obs) ==
    LET r_vec1 == VSub(obs, r1)
        r_vec2 == VSub(obs, r2)
        E1 == IF NormGt(r_vec1, radius) THEN Coulomb(c1, Raw(r_vec1)) ELSE IZero
        E2 == IF NormGt(r_vec2, radius) THEN Coulomb(c2, Raw(r_vec2)) ELSE IZero
    IN  Field(Wrap(IAdd(E1, E2)))

\* A potential evaluation returns a number or raises.
Potential(V) == [raised |-> FALSE, V |-> V]
RaisedV == [raised |-> TRUE, V |-> Num(0)]

\* c / r_mag for r_mag > 0, where c is charge / (4 pi epsilon_0)
CoulombV(c, r_vec) == Quot(c * 100, Sqrt100(ISumSq(r_vec)))

\* charged_sphere.py: compute_potential_sphere for one observation point
compute_potential_sphere(center, radius, sigma, obs) ==
    LET r_vec == VSub(obs, center)
        c == radius * radius * sigma * InvEpsilon0
    IN  IF NormLe(r_vec, radius)
        THEN IF radius = 0 THEN RaisedV ELSE Potential(Num(Quot(c, radius)))
        ELSE IF ~VecIsNum(r_vec) THEN Potential(NaN)
        ELSE IF SumSq(r_vec)[1] = 0 THEN RaisedV
        ELSE Potential(Num(CoulombV(c, Raw(r_vec))))

\* two_spheres.py: compute_potential_two_spheres for one observation point
compute_potential_two_spheres(r1, r2, c1, c2, radius, obs) ==
    LET r_vec1 == VSub(obs, r1)
        r_vec2 == VSub(obs, r2)
    IN  IF ~VecIsNum(obs) \/ radius = 0 THEN RaisedV
        ELSE Potential(Num(
                (IF NormGt(r_vec1, radius) THEN CoulombV(c1, Raw(r_vec1))
                 ELSE Quot(c1, radius))
              + (IF NormGt(r_vec2, radius) THEN CoulombV(c2, Raw(r_vec2))
                 ELSE Quot(c2, radius))))

\* The loop body shared by the discretized sources: the contribution of the
\* element at src to the field at obs, nothing when the element is at obs
\* ("if r_mag > threshold", "if r_mag == 0: continue").
Element(cF, src, obs) ==
    IF src = obs THEN IZero ELSE Coulomb(cF, ISub(obs, src))

\* What the loop gives for an observation point with a NaN coordinate: the
\* guard "r_mag > threshold" is false for NaN and nothing is added, while
\* "if r_mag == 0: continue" lets NaN be added.
FieldOfNaN(skipNaN) == IF skipNaN THEN Field(VZero) ELSE Field(VNaN)

\* The sum of the loop divided by the fixed-point resolution.
FieldOfSum(total) ==
    Field(<<Num(Quot(total[1], FieldFix)), Num(Quot(total[2], FieldFix)),
            Num(Quot(total[3], FieldFix))>>)

\* charged_ring.py: compute_field_ring.  The angles are multiples of 3 degrees:
\* N_segments divides 120.  A source element is placed at the nearest lattice point.
RingSource(center, radius, i) ==
    <<center[1] + RoundQuot(radius * Cos120(i), 10000),
      center[2] + RoundQuot(radius * Sin120(i), 10000), center[3]>>

\* The sums run over index ranges lo..hi, split in halves (integer addition
\* does not depend on the order of the terms).
RECURSIVE RingSum(_, _, _, _, _, _, _)
RingSum(center, radius, cF, obs, step, lo, hi) ==
    IF lo > hi THEN IZero
    ELSE IF lo = hi
    THEN Element(cF, RingSource(center, radius, lo * step), obs)
    ELSE IAdd(RingSum(center, radius, cF, obs, step, lo, (lo + hi) \div 2),
              RingSum(center, radius, cF, obs, step, (lo + hi) \div 2 + 1, hi))

compute_field_ring(center, radius, sigma, obs, N_segments) ==
    \* dq / (4 pi epsilon_0) with dq = sigma * radius * 2 pi / N_segments
    LET cF == Quot(sigma * radius * InvEpsilon0 * FieldFix, 2 * N_segments)
    IN  IF ~VecIsNum(obs) THEN FieldOfNaN(TRUE)
        ELSE FieldOfSum(RingSum(center, radius, cF, Raw(obs), 120 \div N_segments,
                                0, N_segments - 1))

\* charged_cylinder.py: compute_field_cylinder; element k is (i, j) = (k div N_z, k mod N_z)
CylinderSource(center, radius, height, N_theta, N_z, k) ==
    \* z = center[2] - height / 2 + j * dz
    IAdd(RingSource(center, radius, (k \div N_z) * (120 \div N_theta)),
         <<0, 0, RoundQuot(-height * N_z + 2 * (k % N_z) * height, 2 * N_z)>>)

RECURSIVE CylinderSum(_, _, _, _, _, _, _, _, _)
CylinderSum(center, radius, height, cF, obs, N_theta, N_z, lo, hi) ==
    IF lo > hi THEN IZero
    ELSE IF lo = hi
    THEN Element(cF, CylinderSource(center, radius, height, N_theta, N_z, lo), obs)
    ELSE IAdd(CylinderSum(center, radius, height, cF, obs, N_theta, N_z,
                          lo, (lo + hi) \div 2),
              CylinderSum(center, radius, height, cF, obs, N_theta, N_z,
                          (lo + hi) \div 2 + 1, hi))

compute_field_cylinder(center, radius, height, sigma, obs, N_theta, N_z) ==
    \* dq / (4 pi epsilon_0), dq = sigma * radius * (2 pi / N_theta) * (height / N_z)
    LET cF == Quot(sigma * radius * height * InvEpsilon0 * (FieldFix \div 10),
                   2 * N_theta * N_z) * 10
    IN  IF ~VecIsNum(obs) THEN FieldOfNaN(TRUE)
        ELSE FieldOfSum(CylinderSum(center, radius, height, cF, Raw(obs), N_theta, N_z,
                                    0, N_theta * N_z - 1))

\* charged_plate.py: compute_field_plate; element k is (i, j) = (k div N, k mod N)
\* and 1 / (4 pi) is taken as 7 / 88
PlateSource(center, width, height, N, k) ==
    \* x = center[0] - width / 2 + (i + 0.5) * dx, and y alike
    <<center[1] + RoundQuot(-width * N + (2 * (k \div N) + 1) * width, 2 * N),
      center[2] + RoundQuot(-height * N + (2 * (k % N) + 1) * height, 2 * N),
      center[3]>>

RECURSIVE PlateSum(_, _, _, _, _, _, _, _)
PlateSum(center, width, height, cF, obs, N, lo, hi) ==
    IF lo > hi THEN IZero
    ELSE IF lo = hi
    THEN Element(cF, PlateSource(center, width, height, N, lo), obs)
    ELSE IAdd(PlateSum(center, width, height, cF, obs, N, lo, (lo + hi) \div 2),
              PlateSum(center, width, height, cF, obs, N, (lo + hi) \div 2 + 1, hi))

compute_field_plate(center, width, height, sigma, obs, N) ==
    \* dq / (4 pi epsilon_0) with dq = sigma * (width / N) * (height / N)
    IF N <= 0 THEN Raised
    ELSE IF ~VecIsNum(obs) THEN FieldOfNaN(FALSE)
    ELSE LET cF == Quot(sigma * width * height * InvEpsilon0 * 7, 88 * N * N) * FieldFix
         IN  FieldOfSum(PlateSum(center, width, height, cF, Raw(obs), N, 0, N * N - 1))

\* parallel_plates.py: compute_field_parallel_plates; the grid is fixed, 20 x 20
\* over a 2 m x 2 m plate, and c1, c2 are q1, q2 / (4 pi epsilon_0)
PlatesN == 20
PlatesSide == 80

compute_field_parallel_plates(pos1, pos2, c1, c2, obs) ==
    LET N == PlatesN
        \* dq = q / area * dA with dA = (w / N) * (h / N) and area = w * h
        cF1 == Quot(c1, N * N) * FieldFix
        cF2 == Quot(c2, N * N) * FieldFix
    IN  IF ~VecIsNum(obs) THEN FieldOfNaN(TRUE)
        ELSE FieldOfSum(IAdd(
                PlateSum(<<0, 0, pos1[3]>>, PlatesSide, PlatesSide, cF1, Raw(obs), N,
                         0, N * N - 1),
                PlateSum(<<0, 0, pos2[3]>>, PlatesSide, PlatesSide, cF2, Raw(obs), N,
                         0, N * N - 1)))

\* E_point of each geometry module, called with the keyword arguments the tick
\* passes; kw is [sigma, radius, distance, invert_signo], each a JSON value
\* (invert_signo a BOOLEAN).  Arithmetic on None raises.
TwoSpheresRadius == 20
PlateSide == 40
EPointN == 20

E_point_sphere(r_point, kw) ==
    IF kw.sigma = None \/ kw.radius = None THEN Raised
    ELSE compute_field_sphere(VZero, kw.radius[1], kw.sigma[1], r_point)

E_point_ring(r_point, kw) ==
    IF kw.sigma = None \/ kw.radius = None THEN Raised
    ELSE compute_field_ring(IZero, kw.radius[1], kw.sigma[1], r_point, 100 + EPointN)

E_point_cylinder(r_point, kw) ==
    IF kw.sigma = None \/ kw.radius = None THEN Raised
    ELSE LET N_theta == IF 40 + EPointN > 20 THEN 40 + EPointN ELSE 20
             N_z == IF 40 + EPointN > 20 THEN 40 + EPointN ELSE 20
         IN  compute_field_cylinder(IZero, kw.radius[1], CylinderHeight, kw.sigma[1],
                                    r_point, N_theta, N_z)

E_point_plate(r_point, kw) ==
    IF kw.sigma = None THEN Raised
    ELSE compute_field_plate(IZero, PlateSide, PlateSide, kw.sigma[1], r_point, EPointN)

E_point_parallel_plates(r_point, kw) ==
    IF kw.sigma = None \/ kw.distance = None THEN Raised
    ELSE LET area == PlatesSide * PlatesSide
             \* q / (4 pi epsilon_0) with q = sigma * area
             c == Quot(kw.sigma[1] * area * InvEpsilon0 * 7, 88)
             c1 == c
             c2 == IF kw.invert_signo THEN -c ELSE c
             pos1 == <<0, 0, -Quot(kw.distance[1], 2)>>
             pos2 == <<0, 0, Quot(kw.distance[1], 2)>>
         IN  compute_field_parallel_plates(pos1, pos2, c1, c2, r_point)

E_point_two_spheres(r_point, kw) ==
    IF kw.sigma = None \/ kw.distance = None THEN Raised
    ELSE LET radius == TwoSpheresRadius
             \* q / (4 pi epsilon_0) with q = 4 pi radius^2 sigma
             c == radius * radius * kw.sigma[1] * InvEpsilon0
             c1 == c
             c2 == IF kw.invert_signo THEN -c ELSE c
             r1 == Vec(-Quot(kw.distance[1], 2), 0, 0)
             r2 == Vec(Quot(kw.distance[1], 2), 0, 0)
         IN  compute_field_two_spheres(r1, r2, c1, c2, radius, r_point)

\* Whether the evaluator of a closed-form kind treats r_point as inside the
\* source: the branch "r_mag <= radius" of compute_field_sphere, and for
\* two_spheres a sphere whose term is left out ("if r_mag1 > radius" is false),
\* with the centres and the radius E_point passes.
E_point_inside(geometry, r_point, kw) ==
    CASE geometry = "charged_sphere" -> NormLe(VSub(r_point, VZero), kw.radius[1])
      [] geometry = "two_spheres" ->
           \/ ~NormGt(VSub(r_point, Vec(-Quot(kw.distance[1], 2), 0, 0)), TwoSpheresRadius)
           \/ ~NormGt(VSub(r_point, Vec(Quot(kw.distance[1], 2), 0, 0)), TwoSpheresRadius)

\* import_module(f"geometries.{geometry}").E_point: a missing module raises
E_point(geometry, r_point, kw) ==
    CASE geometry = "charged_sphere" -> E_point_sphere(r_point, kw)
      [] geometry = "charged_ring" -> E_point_ring(r_point, kw)
      [] geometry = "charged_cylinder" -> E_point_cylinder(r_point, kw)
      [] geometry = "charged_plate" -> E_point_plate(r_point, kw)
      [] geometry = "parallel_plates" -> E_point_parallel_plates(r_point, kw)
      [] geometry = "two_spheres" -> E_point_two_spheres(r_point, kw)
      [] OTHER -> Raised

----------------------------------------------------------------------------
(* The particle-state store *)

NoVec == <<None, None, None>>

\* A store holding only the keys "simulated" and "activo": the run keys (pos,
\* vel, m, q, geometry, sigma, radius, distance, invert) are missing and .get
\* on them gives None.
Bare(simulated, activo) ==
    [full |-> FALSE, simulated |-> simulated, activo |-> activo,
     pos |-> NoVec, vel |-> NoVec, m |-> None, q |-> None, geometry |-> NoKind,
     sigma |-> None, radius |-> None, distance |-> None, invert |-> None]

\* main.py: dcc.Store(id="particle-state", data={"simulated": False, "activo": False})
InitialStore == Bare(FALSE, FALSE)

\* The outputs of a callback: dash.no_update leaves the property as it is, and
\* so does a callback that raises.
NoUpdate == [estado_set |-> FALSE, estado |-> InitialStore,
             disabled_set |-> FALSE, disabled |-> FALSE, raised |-> FALSE]
Uncaught == [NoUpdate EXCEPT !.raised = TRUE]

----------------------------------------------------------------------------
(* callbacks/particle_simulation.py: manejar_particula *)

\* dt = 0.05 s is the unit of time
dt == 1

\* The acceleration with the sign of the charge dropped.
Acceleration_Unsigned(q, m, E) ==
    <<FQuot(FMul(Num(Abs(q)), E[1]), Num(m)),
      FQuot(FMul(Num(Abs(q)), E[2]), Num(m)),
      FQuot(FMul(Num(Abs(q)), E[3]), Num(m))>>

\* acc = (q / m) * E
Acceleration(q, m, E) ==
    <<FQuot(FMul(Num(q), E[1]), Num(m)),
      FQuot(FMul(Num(q), E[2]), Num(m)),
      FQuot(FMul(Num(q), E[3]), Num(m))>>

\* Explicit Euler: the position advanced with the velocity of before the step.
EulerStep_Explicit(pos, vel, acc) ==
    [vel |-> VAdd(vel, VScale(acc, Num(dt))), pos |-> VAdd(pos, VScale(vel, Num(dt)))]

\* vel += acc * dt; pos += vel * dt
EulerStep(pos, vel, acc) ==
    LET v == VAdd(vel, VScale(acc, Num(dt)))
    IN  [vel |-> v, pos |-> VAdd(pos, VScale(v, Num(dt)))]

HasDistance(geometry) == geometry \in {"parallel_plates", "two_spheres"}

\* A stop that rebuilds the store instead of copying it.
Stop_Rebuilt(e) ==
    [NoUpdate EXCEPT !.estado_set = TRUE, !.estado = Bare(e.simulated, FALSE),
                     !.disabled_set = TRUE, !.disabled = TRUE]

\* A stop that disables the timer and leaves the store as it is.
Stop_TimerOnly(e) ==
    [NoUpdate EXCEPT !.disabled_set = TRUE, !.disabled = TRUE]

\* triggered == "stop-button"
Stop_(e) ==
    [NoUpdate EXCEPT !.estado_set = TRUE, !.estado = [e EXCEPT !.activo = FALSE],
                     !.disabled_set = TRUE, !.disabled = TRUE]

\* A start without the test of "simulated".
Start_Unguarded(e, in) ==
    [NoUpdate EXCEPT
        !.estado_set = TRUE,
        !.estado = [full |-> TRUE, simulated |-> TRUE, activo |-> TRUE,
                    pos |-> in.pos0, vel |-> in.vel0, m |-> in.m, q |-> in.q,
                    geometry |-> in.geometry, sigma |-> in.sigma,
                    radius |-> in.radius, distance |-> in.distance,
                    invert |-> in.invert],
        !.disabled_set = TRUE, !.disabled = FALSE]

\* A start that resumes a recorded run from where it is.
Start_Resume(e, in) ==
    IF ~e.simulated THEN NoUpdate
    ELSE [NoUpdate EXCEPT
            !.estado_set = TRUE,
            !.estado = [full |-> TRUE, simulated |-> TRUE, activo |-> TRUE,
                        pos |-> IF e.full THEN e.pos ELSE in.pos0,
                        vel |-> IF e.full THEN e.vel ELSE in.vel0,
                        m |-> in.m, q |-> in.q,
                        geometry |-> in.geometry, sigma |-> in.sigma,
                        radius |-> in.radius, distance |-> in.distance,
                        invert |-> in.invert],
            !.disabled_set = TRUE, !.disabled = FALSE]

\* triggered == "start-button"; in holds the values of the input widgets
Start_(e, in) ==
    IF ~e.simulated THEN NoUpdate
    ELSE [NoUpdate EXCEPT
            !.estado_set = TRUE,
            !.estado = [full |-> TRUE, simulated |-> TRUE, activo |-> TRUE,
                        pos |-> in.pos0, vel |-> in.vel0, m |-> in.m, q |-> in.q,
                        geometry |-> in.geometry, sigma |-> in.sigma,
                        radius |-> in.radius, distance |-> in.distance,
                        invert |-> in.invert],
            !.disabled_set = TRUE, !.disabled = FALSE]

\* kwargs of the tick's call E_func(pos, **kwargs)
TickKwargs(e) ==
    [sigma |-> e.sigma, radius |-> e.radius, distance |-> e.distance,
     invert_signo |-> e.invert # None /\ "invert" \in e.invert[1]]

\* What the try block of the tick raises on before it calls E_func: a missing
\* geometry module, and "invert" in None.
TickRaisesEarly(e) ==
    \/ e.geometry \notin Kinds
    \/ HasDistance(e.geometry) /\ e.invert = None

\* (q / m) raises for a missing q or m and for a zero m
QOverMRaises(e) == e.q = None \/ e.m = None \/ e.m[1] = 0

\* A tick that tests the collision at the position of before the step.
TickFrom_CollisionFirst(e, F) ==
    IF F.raised \/ QOverMRaises(e) THEN NoUpdate
    ELSE LET acc == Acceleration(e.q[1], e.m[1], F.E)
             new == EulerStep(e.pos, e.vel, acc)
             colision == check_collision(e.pos, e.geometry, e)
         IN  [NoUpdate EXCEPT
                !.estado_set = TRUE,
                !.estado = [e EXCEPT !.activo = IF colision THEN FALSE ELSE e.activo,
                                     !.pos = new.pos, !.vel = new.vel]]

\* The tick from E = E_func(pos, **kwargs) on, F being the outcome of the call.
TickFrom(e, F) ==
    IF F.raised \/ QOverMRaises(e) THEN NoUpdate
    ELSE LET acc == Acceleration(e.q[1], e.m[1], F.E)
             new == EulerStep(e.pos, e.vel, acc)
             colision == check_collision(new.pos, e.geometry, e)
         IN  [NoUpdate EXCEPT
                !.estado_set = TRUE,
                !.estado = [e EXCEPT !.activo = IF colision THEN FALSE ELSE e.activo,
                                     !.pos = new.pos, !.vel = new.vel]]

\* A tick that leaves the timer running when the particle is inactive.
Tick_KeepsTimer(e) ==
    IF ~e.activo \/ ~e.full THEN NoUpdate
    ELSE IF TickRaisesEarly(e) THEN NoUpdate
    ELSE TickFrom(e, E_point(e.geometry, e.pos, TickKwargs(e)))

\* A tick that returns a store holding only the keys it computed.
Tick_Rebuilt(e) ==
    IF ~e.activo \/ ~e.full
    THEN [NoUpdate EXCEPT !.disabled_set = TRUE, !.disabled = TRUE]
    ELSE IF TickRaisesEarly(e) THEN NoUpdate
    ELSE LET out == TickFrom(e, E_point(e.geometry, e.pos, TickKwargs(e)))
         IN  IF ~out.estado_set THEN out
             ELSE [out EXCEPT !.estado = [Bare(e.simulated, out.estado.activo)
                                            EXCEPT !.pos = out.estado.pos,
                                                   !.vel = out.estado.vel]]

\* triggered == "animation-interval"
Tick_(e) ==
    IF ~e.activo \/ ~e.full
    THEN [NoUpdate EXCEPT !.disabled_set = TRUE, !.disabled = TRUE]
    ELSE IF TickRaisesEarly(e) THEN NoUpdate
    ELSE TickFrom(e, E_point(e.geometry, e.pos, TickKwargs(e)))

\* A callback whose tick takes the mass and the charge from the widgets.
manejar_particula_FromWidgets(triggered_id, e, in) ==
    CASE triggered_id = "stop-button" -> Stop_(e)
      [] triggered_id = "start-button" -> Start_(e, in)
      [] triggered_id = "animation-interval" -> Tick_([e EXCEPT !.m = in.m, !.q = in.q])
      [] OTHER -> NoUpdate

\* triggered_id is ctx.triggered_id; in holds the State values of the widgets
manejar_particula(triggered_id, e, in) ==
    CASE triggered_id = "stop-button" -> Stop_(e)
      [] triggered_id = "start-button" -> Start_(e, in)
      [] triggered_id = "animation-interval" -> Tick_(e)
      [] OTHER -> NoUpdate

----------------------------------------------------------------------------
(* main.py: actualizar_grafico *)

\* generar_figura: geometry_map.get(geometry) is None for an unknown kind and
\* simulate_fn.__code__ then raises
generar_figura_raises(geometry) == geometry \notin Kinds

\* A call of generar_figura for a kind, by the callback named by: whether it
\* raised, and whether the exception left the callback.
generar_figura(geometry, by, caught) ==
    [geometry |-> geometry, by |-> by, raised |-> generar_figura_raises(geometry),
     uncaught |-> generar_figura_raises(geometry) /\ ~caught]

\* A field computation that hands back an active store.
actualizar_grafico_Active(geometry) ==
    IF generar_figura_raises(geometry) THEN Uncaught
    ELSE [NoUpdate EXCEPT !.estado_set = TRUE, !.estado = Bare(TRUE, TRUE)]

actualizar_grafico(geometry) ==
    IF generar_figura_raises(geometry) THEN Uncaught
    ELSE [NoUpdate EXCEPT !.estado_set = TRUE, !.estado = Bare(TRUE, FALSE)]

----------------------------------------------------------------------------
(* Bounds and inputs *)

\* Positions are followed inside the cube of this half-width (lattice units).
MaxCoord == 150

Checked == <<{"invert"}>>
Unchecked == <<{}>>

\* The widgets' values for a run on a geometry with the default parameters
\* (sigma, radius 1 m, distance 1 m, sign inverted), charge q and mass m.
Input(geometry, pos0, vel0, q, m) ==
    [geometry |-> geometry, pos0 |-> pos0, vel0 |-> vel0, m |-> Num(m), q |-> Num(q),
     sigma |-> Num(1), radius |-> Num(40), distance |-> Num(40), invert |-> Checked]

SphereAt48 == Input("charged_sphere", Vec(48, 0, 0), VZero, -1, 100)
TwoSpheresAt48 == Input("two_spheres", Vec(48, 0, 0), VZero, -1, 100)

\* Attraction runs on the sphere from rest at 3 m: a weak, a medium and a
\* strong pull.
SphereWeak == Input("charged_sphere", Vec(120, 0, 0), VZero, -1, 400)
SphereMedium == Input("charged_sphere", Vec(120, 0, 0), VZero, -1, 100)
SphereStrong == Input("charged_sphere", Vec(120, 0, 0), VZero, -1, 4)
AttractionRuns == {SphereWeak, SphereMedium, SphereStrong}

WellFormed ==
    AttractionRuns \cup
    {SphereAt48, TwoSpheresAt48,
     Input("charged_sphere", Vec(100, 0, 0), VZero, 1, 100),
     Input("charged_sphere", Vec(100, 0, 0), Vec(0, 4, 0), -1, 100),
     Input("charged_sphere", Vec(20, 0, 0), VZero, -1, 100),
     Input("two_spheres", Vec(60, 0, 0), VZero, -1, 100),
     Input("two_spheres", Vec(0, 0, 0), VZero, 1, 100),
     Input("two_spheres", Vec(48, 0, 0), VZero, -1, 1000),
     Input("charged_ring", Vec(0, 0, 30), VZero, 1, 1),
     Input("charged_ring", Vec(60, 0, 0), VZero, -1, 1),
     Input("charged_plate", Vec(0, 0, 4), Vec(0, 0, -3), -1, 1000),
     Input("charged_plate", Vec(0, 0, 10), VZero, -1, 100),
     Input("charged_plate", Vec(0, 0, 2), VZero, 1, 100),
     Input("parallel_plates", Vec(0, 0, 10), Vec(0, 0, 6), 1, 1000),
     Input("charged_cylinder", Vec(46, 0, 0), Vec(-4, 0, 0), -1, 1000)}

\* One widget left empty, the mass zero, or the dropdown cleared.
MalformedOf(in) ==
    {[in EXCEPT !.m = None], [in EXCEPT !.m = Num(0)], [in EXCEPT !.q = None],
     [in EXCEPT !.pos0 = <<None, Num(0), Num(0)>>],
     [in EXCEPT !.vel0 = <<Num(0), None, Num(0)>>],
     [in EXCEPT !.sigma = None], [in EXCEPT !.radius = None],
     [in EXCEPT !.distance = None],
     [in EXCEPT !.invert = Unchecked], [in EXCEPT !.geometry = NoKind]}

Inputs == WellFormed \cup MalformedOf(SphereAt48) \cup MalformedOf(TwoSpheresAt48)

\* The widgets' values while the interval fires: the user may have edited them
\* since the start.
TickWidgets == {SphereAt48, SphereStrong}

\* Values of the resolution input "input-N" (30 is its initial value): the
\* resolution the field is computed with for display.
ConfigN == {20, 30}

\* The kinds the dropdown holds when "Simular" is clicked: two of the six, and
\* the cleared dropdown.
Dropdown == {"charged_sphere", "charged_plate", NoKind}

InBox(pos) ==
    \A i \in 1..3 : IsNum(pos[i]) => Abs(pos[i][1]) <= MaxCoord

----------------------------------------------------------------------------
(* The callbacks as atomic steps *)

Apply(out) ==
    /\ estado' = IF out.estado_set THEN out.estado ELSE estado
    /\ disabled' = IF out.disabled_set THEN out.disabled ELSE disabled

Init ==
    /\ estado = InitialStore
    /\ disabled = TRUE
    /\ triggered = "none"
    /\ computed = {}
    /\ probe = None
    /\ fig = None

\* A click on "Iniciar animacion" with the widgets holding in.
Start ==
    \E in \in Inputs :
        /\ triggered' = "start-button"
        /\ Apply(manejar_particula("start-button", estado, in))
        /\ fig' = None
        /\ UNCHANGED <<computed, probe>>

\* A click on "Detener".
Stop ==
    /\ triggered' = "stop-button"
    /\ Apply(manejar_particula("stop-button", estado, SphereAt48))
    /\ fig' = None
    /\ UNCHANGED <<computed, probe>>

\* The interval fires (it does while it is not disabled); the callback is
\* handed the widgets' values of that moment.
Tick ==
    /\ ~disabled
    /\ triggered' = "animation-interval"
    /\ \E in \in TickWidgets :
         \E out \in {manejar_particula("animation-interval", estado, in)} :
           /\ out.estado_set => InBox(out.estado.pos)
           /\ Apply(out)
    /\ fig' = None
    /\ UNCHANGED <<computed, probe>>

\* A click on "Simular" with the dropdown holding geometry.
Simulate ==
    \E geometry \in Dropdown :
        LET out == actualizar_grafico(geometry)
        IN  /\ triggered' = "simulate-button"
            /\ Apply(out)
            /\ computed' = IF out.raised THEN computed ELSE computed \cup {geometry}
            /\ fig' = <<generar_figura(geometry, "simulate-button", FALSE)>>
            /\ UNCHANGED probe

\* The store's data is an Input of actualizar_grafico_particula: the figure is
\* drawn again for the store as it is.  Its only output is the graph.
Redraw ==
    /\ triggered' = "particle-state"
    /\ fig' = IF ~estado.simulated \/ ~estado.full THEN None
              ELSE <<generar_figura(estado.geometry, "particle-state", TRUE)>>
    /\ UNCHANGED <<estado, disabled, computed, probe>>

Next == Start \/ Stop \/ Tick \/ Simulate \/ Redraw

Spec == Init /\ [][Next]_vars

----------------------------------------------------------------------------
(* Properties of the callbacks *)

\* The store a start builds from the widgets' values in.
Fresh(in) ==
    [full |-> TRUE, simulated |-> TRUE, activo |-> TRUE,
     pos |-> in.pos0, vel |-> in.vel0, m |-> in.m, q |-> in.q,
     geometry |-> in.geometry, sigma |-> in.sigma, radius |-> in.radius,
     distance |-> in.distance, invert |-> in.invert]

\* A tick has run on an active store and nothing before the call of E_func,
\* nor q / m, raises on it.
TickOnActive ==
    /\ triggered' = "animation-interval"
    /\ estado.activo
    /\ ~TickRaisesEarly(estado)
    /\ ~QOverMRaises(estado)

\* C1: a start request while the store's "simulated" flag is false leaves the
\* store and the timer's disabled property as they were, and the particle
\* inactive.
C1_StartIgnoredWithoutField ==
    [][(triggered' = "start-button" /\ ~estado.simulated)
         => (estado' = estado /\ disabled' = disabled /\ ~estado'.activo)]_vars

\* C1, its case: a start has just been requested on the initial store.
C1_Witness ==
    triggered = "start-button" /\ estado = InitialStore /\ disabled

\* C2: a tick on an active store whose try block runs through makes one
\* semi-implicit Euler step: a = (q / m) * E(p_old), v_new = v_old + a * dt,
\* p_new = p_old + v_new * dt.
C2_SemiImplicitEuler ==
    [][TickOnActive
         => \A F \in {E_point(estado.geometry, estado.pos, TickKwargs(estado))} :
              ~F.raised =>
                \A i \in 1..3 :
                    \A a \in {FQuot(FMul(estado.q, F.E[i]), estado.m)} :
                    \A v \in {FAdd(estado.vel[i], FMul(a, Num(dt)))} :
                        /\ estado'.vel[i] = v
                        /\ estado'.pos[i] = FAdd(estado.pos[i], FMul(v, Num(dt)))]_vars

\* C2, its case: the first tick of the weak attraction run has changed the
\* velocity from 0 to -1 and moved the particle by the new velocity.
C2_Witness ==
    /\ triggered = "animation-interval"
    /\ estado.activo
    /\ estado.m = Num(400)
    /\ estado.vel = Vec(-1, 0, 0)
    /\ estado.pos = Vec(119, 0, 0)

\* C3: on a tick of a running particle the collision test is made on the
\* position after the update: the store holds the updated position, and it is
\* inactive exactly when that position collides.
C3_CollisionAfterUpdate ==
    [][TickOnActive
         => \A F \in {E_point(estado.geometry, estado.pos, TickKwargs(estado))} :
              ~F.raised =>
                /\ estado'.pos = VAdd(estado.pos, VScale(estado'.vel, Num(dt)))
                /\ estado'.activo
                     <=> ~check_collision(estado'.pos, estado.geometry, estado)]_vars

\* C3, its case: a tick has moved the particle from outside the sphere into
\* it and stopped it there (the timer is still enabled: no stop was requested).
C3_Witness ==
    /\ triggered = "animation-interval"
    /\ estado.full /\ ~estado.activo /\ ~disabled
    /\ estado.geometry = "charged_sphere"
    /\ estado.vel # VZero
    /\ check_collision(estado.pos, estado.geometry, estado)

\* C4: a stop request sets activo to false and disables the timer, and leaves
\* every other key of the store as it was.
C4_StopFrame ==
    [][triggered' = "stop-button"
         => (estado' = [estado EXCEPT !.activo = FALSE] /\ disabled')]_vars

\* C4, its case: a stop was requested in the middle of a run, at a position
\* that does not collide.
C4_Witness ==
    /\ triggered = "stop-button"
    /\ estado.full /\ ~estado.activo /\ disabled
    /\ estado.pos = Vec(119, 0, 0) /\ estado.vel = Vec(-1, 0, 0)
    /\ ~check_collision(estado.pos, estado.geometry, estado)

\* C5: an inactive store becomes active only by a start request, and then it
\* is the store built from the widgets' values.
C5_OnlyStartActivates ==
    [][(~estado.activo /\ estado'.activo)
         => (triggered' = "start-button" /\ \E in \in Inputs : estado' = Fresh(in))]_vars

\* C5, its case: a tick has run on the store of a finished run and left it
\* inactive.
C5_Witness ==
    /\ triggered = "animation-interval"
    /\ estado.full /\ ~estado.activo /\ disabled

\* The stored inputs of a tick are malformed: mass or charge missing, mass
\* zero, a coordinate of the position or of the velocity missing, or the
\* geometry missing or unknown.
MalformedStore(e) ==
    \/ e.m = None \/ e.q = None \/ e.m = Num(0)
    \/ ~VecIsNum(e.pos) \/ ~VecIsNum(e.vel)
    \/ e.geometry \notin Kinds

\* C7: a tick on an active store whose stored inputs are malformed, or whose
\* field evaluation raises, leaves the store as it was and the timer enabled.
C7_MalformedTickHolds ==
    [][(/\ triggered' = "animation-interval"
        /\ estado.activo
        /\ \/ MalformedStore(estado)
           \/ TickRaisesEarly(estado)
           \/ E_point(estado.geometry, estado.pos, TickKwargs(estado)).raised)
         => (estado' = estado /\ disabled' = disabled)]_vars

\* C8: a start request that makes the store active records a geometry kind a
\* field has been computed for.
C8_StartOnComputedKind ==
    [][(triggered' = "start-button" /\ estado'.activo)
         => estado'.geometry \in computed]_vars

\* C11: the result of a tick is a function of the stored state alone: whatever
\* the widgets hold when the interval fires, the store and the timer after the
\* tick are those the callback computes from the store before it, so two runs
\* from the same store go through the same stores tick by tick.
C11_TickDeterministic ==
    [][triggered' = "animation-interval"
         => \A in \in TickWidgets :
              \A out \in {manejar_particula("animation-interval", estado, in)} :
                /\ estado' = IF out.estado_set THEN out.estado ELSE estado
                /\ disabled' = IF out.disabled_set THEN out.disabled ELSE disabled]_vars

\* C11, its case: two ticks have run on the weak attraction run, whose stored
\* mass and start differ from what every widget setting of the ticks holds.
C11_Witness ==
    /\ triggered = "animation-interval"
    /\ estado.activo
    /\ estado.m = Num(400)
    /\ \A in \in TickWidgets : in.m # estado.m
    /\ estado.vel = Vec(-2, 0, 0)
    /\ estado.pos = Vec(117, 0, 0)

\* The values a request may carry for a parameter of the geometry.
ParamValues == {None, Num(20), Num(40), Num(80)}
InvertValues == {None, Checked, Unchecked}

\* The kinds radius is not a parameter of.
NoRadius == {"charged_plate", "parallel_plates", "two_spheres"}

\* The stores that differ from e in one parameter that is not applicable to
\* the kind of e: distance and sign inversion for the kinds without a
\* distance, radius for the kinds without a radius.
NotApplicable(e) ==
    (IF HasDistance(e.geometry) THEN {}
     ELSE {[e EXCEPT !.distance = v] : v \in ParamValues}
            \cup {[e EXCEPT !.invert = v] : v \in InvertValues})
    \cup
    (IF e.geometry \in NoRadius THEN {[e EXCEPT !.radius = v] : v \in ParamValues}
     ELSE {})

\* C15: a parameter that is not applicable to the kind of the run has no
\* influence on a tick: the tick on a store that differs only in such a
\* parameter gives the same position and velocity (the same field) and the
\* same active flag (the same collision outcome).
C15_UnusedParametersInert ==
    [][(triggered' = "animation-interval" /\ estado.activo /\ estado.geometry \in Kinds)
         => \A alt \in NotApplicable(estado) :
              \A out \in {Tick_(alt)} :
              \A new \in {IF out.estado_set THEN out.estado ELSE alt} :
                /\ new.pos = estado'.pos
                /\ new.vel = estado'.vel
                /\ new.activo = estado'.activo]_vars

\* C16: a field-computation request and a figure redraw leave the particle's
\* position, velocity, mass, charge, geometry parameters and active flag as
\* they were.
C16_FigureRequestsKeepParticle ==
    [][triggered' \in {"simulate-button", "particle-state"}
         => /\ estado'.pos = estado.pos /\ estado'.vel = estado.vel
            /\ estado'.m = estado.m /\ estado'.q = estado.q
            /\ estado'.geometry = estado.geometry /\ estado'.sigma = estado.sigma
            /\ estado'.radius = estado.radius /\ estado'.distance = estado.distance
            /\ estado'.invert = estado.invert
            /\ estado'.activo = estado.activo]_vars

\* C17: a request that builds a figure for an unknown geometry kind, be it
\* the simulate request or the redraw, does not end in an exception and does
\* not mark a field as computed.
C17_UnknownKindNeverRaises ==
    [][(fig' # None /\ fig'[1].geometry \notin Kinds)
         => /\ ~fig'[1].uncaught
            /\ estado'.simulated = estado.simulated
            /\ computed' = computed]_vars

\* generar_figura's default of sigma, 1e-6, in the model's unit
DefaultSigma == 1

\* The store with every missing scalar parameter replaced by its default:
\* sigma = 1e-6, radius = 1.0, distance = 1.0, no sign inversion selected.
WithDefaults(e) ==
    [e EXCEPT !.sigma = IF @ = None THEN Num(DefaultSigma) ELSE @,
              !.radius = IF @ = None THEN Num(DefaultRadius) ELSE @,
              !.distance = IF @ = None THEN Num(DefaultDistance) ELSE @,
              !.invert = IF @ = None THEN Unchecked ELSE @]

\* C18: a tick of a run whose store lacks a scalar geometry parameter
\* advances the particle as the tick of the store with the defaults put in
\* does.
C18_MissingParameterDefaulted ==
    [][(/\ triggered' = "animation-interval"
        /\ estado.activo
        /\ estado.geometry \in Kinds
        /\ ~QOverMRaises(estado)
        /\ WithDefaults(estado) # estado)
         => \A out \in {Tick_(WithDefaults(estado))} :
              /\ out.estado_set
              /\ estado'.pos = out.estado.pos
              /\ estado'.vel = out.estado.vel
              /\ estado'.activo = out.estado.activo]_vars

\* C20: on a tick the field at the particle is the one of the element set of
\* the configured resolution N, with the geometry parameters stored at start.
\* Stated for the plate, whose N x N element set the display computes as
\* compute_field_plate(center, 1.0, 1.0, sigma, points, epsilon_0, N).
C20_TickFieldFromConfig ==
    [][(/\ TickOnActive
        /\ estado.geometry = "charged_plate"
        /\ estado.sigma # None
        /\ VecIsNum(estado.pos) /\ VecIsNum(estado.vel))
         => \A N \in ConfigN :
              \A F \in {compute_field_plate(IZero, PlateSide, PlateSide,
                                            estado.sigma[1], estado.pos, N)} :
                /\ ~F.raised
                /\ estado'.vel
                     = VAdd(estado.vel,
                            VScale(Acceleration(estado.q[1], estado.m[1], F.E),
                                   Num(dt)))]_vars

\* The run parameters of a store: what a start records besides the position,
\* the velocity and the active flag.
RunParameters(e) ==
    [m |-> e.m, q |-> e.q, geometry |-> e.geometry, sigma |-> e.sigma,
     radius |-> e.radius, distance |-> e.distance, invert |-> e.invert,
     simulated |-> e.simulated]

\* C22: a tick changes nothing in the store but position, velocity and the
\* active flag, and neither a tick nor a stop changes a run parameter (mass,
\* charge, geometry kind, sigma, radius, distance, sign inversion, simulated
\* flag): across any number of ticks and stops they stay as the start
\* recorded them.
C22_RunParametersImmutable ==
    [][triggered' \in {"animation-interval", "stop-button"}
         => /\ RunParameters(estado') = RunParameters(estado)
            /\ triggered' = "animation-interval"
                 => [estado' EXCEPT !.pos = estado.pos, !.vel = estado.vel,
                                    !.activo = estado.activo] = estado]_vars

\* C22, its case: two ticks and then a stop have run on the weak attraction
\* run; the particle has moved and the run parameters are those of the start.
C22_Witness ==
    /\ triggered = "stop-button"
    /\ ~estado.activo
    /\ estado.pos = Vec(117, 0, 0) /\ estado.vel = Vec(-2, 0, 0)
    /\ RunParameters(estado) = RunParameters(Fresh(SphereWeak))

\* C25: with the callbacks run one at a time, in every reachable state an
\* active particle has its timer enabled.
C25_ActiveImpliesTimerOn ==
    estado.activo => ~disabled

\* C25, its case: a run is active after a tick that moved the particle, and
\* the timer is enabled.
C25_Witness ==
    /\ triggered = "animation-interval"
    /\ estado.activo /\ ~disabled
    /\ estado.pos # Fresh(SphereMedium).pos
    /\ RunParameters(estado) = RunParameters(Fresh(SphereMedium))

\* C26: the tick that detects a collision, and a field computation, make the
\* particle inactive and leave the timer as it is; a tick on an inactive
\* particle disables the timer and leaves the store as it is, so that no
\* second tick follows it; and a disabled timer is enabled only by an accepted
\* start request.
C26_OneTickAfterInactive ==
    [][/\ (triggered' = "animation-interval" /\ estado.activo /\ ~estado'.activo)
            => (disabled' = disabled /\ ~disabled')
       /\ (triggered' = "simulate-button" /\ ~fig'[1].raised)
            => (~estado'.activo /\ disabled' = disabled)
       /\ (triggered' = "animation-interval" /\ ~estado.activo)
            => (disabled' /\ estado' = estado)
       /\ (disabled /\ ~disabled')
            => (triggered' = "start-button" /\ estado.simulated /\ estado'.activo)]_vars

\* C26, its case: a tick stopped the particle inside the sphere with the
\* timer left enabled, and the next tick has disabled the timer and left the
\* store as the collision left it.
C26_Witness ==
    /\ triggered = "animation-interval"
    /\ estado.full /\ ~estado.activo /\ disabled
    /\ estado.geometry = "charged_sphere"
    /\ estado.vel # VZero
    /\ check_collision(estado.pos, estado.geometry, estado)

\* C27: the region the tick tests for a collision is the source the field
\* evaluator of the same tick uses.  For the kinds whose evaluator tests for
\* the inside of the source (sphere, two spheres of radius 0.5 m around
\* (-d/2, 0, 0) and (+d/2, 0, 0)): the tick reports a collision at the new
\* position exactly when the evaluator treats that position as inside.
C27_CollisionRegionIsSource ==
    [][(/\ TickOnActive
        /\ estado.geometry \in {"charged_sphere", "two_spheres"}
        /\ VecIsNum(estado.pos) /\ VecIsNum(estado.vel)
        /\ ~E_point(estado.geometry, estado.pos, TickKwargs(estado)).raised)
         => (~estado'.activo
               <=> E_point_inside(estado.geometry, estado'.pos, TickKwargs(estado)))]_vars

\* C28: a start request on a store whose field is computed gives, whatever
\* the store held before (a running, a stopped or a collided particle, or
\* none), the store built from the widgets' values alone, active and marked
\* simulated, at the initial position and velocity, and enables the timer.
C28_StartFromInputsOnly ==
    [][(triggered' = "start-button" /\ estado.simulated)
         => /\ \E in \in Inputs : estado' = Fresh(in)
            /\ estado'.activo /\ estado'.simulated /\ ~disabled'
            /\ \A in \in Inputs :
                 \A out \in {manejar_particula("start-button", estado, in)} :
                    /\ out.estado_set /\ out.estado = Fresh(in)
                    /\ out.disabled_set /\ ~out.disabled]_vars

\* C28, its case: a start has been accepted and the store is the medium
\* attraction run at its initial position, at rest, with the timer enabled.
C28_Witness ==
    /\ triggered = "start-button"
    /\ estado = Fresh(SphereMedium)
    /\ estado.pos = SphereMedium.pos0 /\ estado.vel = SphereMedium.vel0
    /\ ~disabled

----------------------------------------------------------------------------
(* check_collision called directly *)

\* Coordinates, radii and distances of the probes (lattice units): around the
\* surfaces of the default geometries, 0 and 60 (1.5 m) included.
ProbeXY == {-41, -40, 0, 19, 20, 21, 38, 39, 40, 41, 42, 60}
ProbeZ == {-60, -41, -40, -20, -2, -1, 0, 1, 2, 20, 40, 41, 60}
ProbeRadii == {0, 20, 40}
ProbeDistances == {0, 40, 80}

\* Pairs of radius and distance of which one at least is missing or not a
\* number.
BadValues == {None, NonNumeric}
BadPairs ==
    (BadValues \X (BadValues \cup {Num(d) : d \in ProbeDistances}))
      \cup ({Num(R) : R \in ProbeRadii} \X BadValues)

\* The arguments of a call, before check_collision has run on them, with
\* numbers for radius and distance.
Probes ==
    {[pos |-> <<x, y, z>>, geometry |-> geometry, radius |-> Num(R),
      distance |-> Num(d), done |-> FALSE, hit |-> FALSE] :
        x \in ProbeXY, y \in {0, 20, 21}, z \in ProbeZ, geometry \in Kinds \cup {NoKind},
        R \in ProbeRadii, d \in ProbeDistances}

\* The arguments of a call with a missing or non-numeric radius or distance.
BadProbes ==
    {[pos |-> <<x, 0, z>>, geometry |-> geometry, radius |-> Rd[1],
      distance |-> Rd[2], done |-> FALSE, hit |-> FALSE] :
        x \in ProbeXY, z \in ProbeZ, geometry \in Kinds \cup {NoKind}, Rd \in BadPairs}

InitCollision ==
    /\ estado = InitialStore
    /\ disabled = TRUE
    /\ triggered = "none"
    /\ computed = {}
    /\ \/ probe \in {<<p>> : p \in Probes}
       \/ probe \in {<<p>> : p \in BadProbes}
    /\ fig = None

\* check_collision(pos, geometry, {"radius": R, "distance": d})
Collide ==
    /\ probe # None
    /\ ~probe[1].done
    /\ probe' = <<[probe[1] EXCEPT
                     !.done = TRUE,
                     !.hit = check_collision(Vec(probe[1].pos[1], probe[1].pos[2],
                                                 probe[1].pos[3]),
                                             probe[1].geometry,
                                             [radius |-> probe[1].radius,
                                              distance |-> probe[1].distance])]>>
    /\ UNCHANGED <<estado, disabled, triggered, computed, fig>>

SpecCollision == InitCollision /\ [][Collide]_vars

\* hasCollided as specified, for a position p and supplied R and d; the
\* comparisons of a norm are made on the squares.
HasCollided(p, geometry, R, d) ==
    LET x == p[1]
        y == p[2]
        z == p[3]
        rho2 == x * x + y * y
    IN  CASE geometry = "charged_sphere" -> rho2 + z * z <= R * R
          [] geometry = "charged_ring" ->
               /\ Abs(z) < 2
               /\ rho2 < (R + 2) * (R + 2)
               /\ (R < 2 \/ rho2 > (R - 2) * (R - 2))
          [] geometry = "charged_cylinder" -> rho2 <= R * R /\ Abs(z) <= 40
          [] geometry = "charged_plate" -> Abs(z) < 2 /\ Abs(x) <= 20 /\ Abs(y) <= 20
          [] geometry = "parallel_plates" ->
               Abs(x) <= 40 /\ Abs(y) <= 40 /\ (2 * z <= -d \/ 2 * z >= d)
          [] geometry = "two_spheres" ->
               \/ (2 * x - d) * (2 * x - d) + 4 * y * y + 4 * z * z <= 4 * R * R
               \/ (2 * x + d) * (2 * x + d) + 4 * y * y + 4 * z * z <= 4 * R * R
          [] OTHER -> FALSE

\* C9: for every position and every supplied numeric radius and distance,
\* check_collision returns the value of the specified formulas.
C9_CollisionFormulas ==
    (probe # None /\ probe[1].done /\ Len(probe[1].radius) = 1
       /\ Len(probe[1].distance) = 1)
      => probe[1].hit = HasCollided(probe[1].pos, probe[1].geometry,
                                    probe[1].radius[1], probe[1].distance[1])

\* The number the formulas are to be evaluated with for a parameter v: the
\* default 1.0 when v is missing or not a number.
Lenient(v) == IF Len(v) # 1 THEN 40 ELSE v[1]

\* C19: when radius or distance is missing or not a number, check_collision
\* returns, for every kind, the boolean the formulas give with 1.0 in the
\* place of that parameter (the other parameter, when it is a number, being
\* non-zero).
C19_LenientDefaults ==
    (/\ probe # None /\ probe[1].done
     /\ Len(probe[1].radius) # 1 \/ Len(probe[1].distance) # 1
     /\ probe[1].radius # Num(0) /\ probe[1].distance # Num(0))
      => /\ probe[1].hit \in BOOLEAN
         /\ probe[1].hit = HasCollided(probe[1].pos, probe[1].geometry,
                                       Lenient(probe[1].radius),
                                       Lenient(probe[1].distance))

\* C19, its case: check_collision has run for the sphere with a radius that
\* is not a number, on a point at 1 m from the centre, and reports a hit.
C19_Witness ==
    /\ probe # None /\ probe[1].done
    /\ probe[1].geometry = "charged_sphere"
    /\ probe[1].radius = NonNumeric
    /\ probe[1].pos = <<40, 0, 0>>
    /\ probe[1].hit

----------------------------------------------------------------------------
(* Attraction runs on the sphere *)

\* Starts at rest outside the sphere of radius 1 m and positive sigma, with a
\* negative charge: from a weak pull (mass 400) to a strong one (mass 50).
RunStarts ==
    {Input("charged_sphere", p, VZero, -1, m) :
        p \in {Vec(120, 0, 0), Vec(80, 0, 0), Vec(0, 100, 0), Vec(0, 0, -140),
               Vec(60, 0, 80), Vec(48, 0, 0)},
        m \in {50, 100, 200, 400}}

\* The field has been computed for the sphere and a start has been accepted.
InitRun ==
    /\ estado \in {manejar_particula("start-button", Bare(TRUE, FALSE), in).estado :
                     in \in RunStarts}
    /\ disabled = FALSE
    /\ triggered = "start-button"
    /\ computed = {"charged_sphere"}
    /\ probe = None
    /\ fig = None

\* The interval fires while it is enabled.
SpecRun == InitRun /\ [][Tick]_vars

Dot(a, b) == a[1][1] * b[1][1] + a[2][1] * b[2][1] + a[3][1] * b[3][1]

\* The step from estado to estado' carries the particle across the centre to
\* the outside of the sphere on the far side.
JumpsThrough ==
    /\ Dot(estado'.pos, estado.pos) <= 0
    /\ SumSq(estado'.pos)[1] > estado.radius[1] * estado.radius[1]

----------------------------------------------------------------------------
(* The field and potential kernels called directly *)

\* Coordinates of the observation points (lattice units): the centres and the
\* surfaces of the spheres of radius 0.5 m and 1 m, inside and outside them.
FieldXs == {-60, -41, -40, -39, -30, -20, -10, 0, 10, 19, 20, 21, 39, 40, 41, 60}
FieldYs == {0, 10, 20}

\* The arguments of a call, before the kernel has run on them.  fn names the
\* kernel pair; other is q2 / q1 of two_spheres; N_theta and N_z are the
\* numbers of elements of the discretized kinds.
FieldProbe(fn, obs, radius, distance, sigma, other, N_theta, N_z) ==
    [fn |-> fn, obs |-> obs, radius |-> radius, distance |-> distance,
     sigma |-> sigma, other |-> other, N_theta |-> N_theta, N_z |-> N_z,
     done |-> FALSE, raised |-> FALSE, E |-> IZero, V |-> 0]

FieldProbes ==
    {FieldProbe("two_spheres", <<x, y, 0>>, TwoSpheresRadius, d, sigma, other, 0, 0) :
        x \in FieldXs, y \in FieldYs, d \in {40, 80}, sigma \in {1}, other \in {-1, 1}}
    \cup
    {FieldProbe("charged_sphere", <<x, y, z>>, R, 0, sigma, 0, 0, 0) :
        x \in FieldXs, y \in FieldYs, z \in {0, 20}, R \in {20, 40}, sigma \in {-1, 1, 2}}
    \cup
    {FieldProbe("charged_ring", IZero, R, 0, sigma, 0, N, 0) :
        R \in {20, 40}, sigma \in {-1, 1}, N \in {20, 24, 30, 40, 60, 120}}
    \cup
    {FieldProbe("charged_cylinder", IZero, R, 0, sigma, 0, N, N) :
        R \in {20, 40}, sigma \in {1}, N \in {20, 40}}

InitField ==
    /\ estado = InitialStore
    /\ disabled = TRUE
    /\ triggered = "none"
    /\ computed = {}
    /\ probe \in {<<p>> : p \in FieldProbes}
    /\ fig = None

\* The kernels of p.fn called on the arguments p, as E_point and simulate
\* call them: centred at the origin, the two spheres at -d/2 and +d/2 on the
\* x axis with q2 = other * q1, the cylinder 2 m high.
Evaluated(p) ==
    LET c == p.radius * p.radius * p.sigma * InvEpsilon0
        r1 == Vec(-Quot(p.distance, 2), 0, 0)
        r2 == Vec(Quot(p.distance, 2), 0, 0)
        F == CASE p.fn = "two_spheres" ->
                    compute_field_two_spheres(r1, r2, c, p.other * c, p.radius, Wrap(p.obs))
               [] p.fn = "charged_sphere" ->
                    compute_field_sphere(VZero, p.radius, p.sigma, Wrap(p.obs))
               [] p.fn = "charged_ring" ->
                    compute_field_ring(IZero, p.radius, p.sigma, Wrap(p.obs), p.N_theta)
               [] p.fn = "charged_cylinder" ->
                    compute_field_cylinder(IZero, p.radius, CylinderHeight, p.sigma,
                                           Wrap(p.obs), p.N_theta, p.N_z)
        P == CASE p.fn = "two_spheres" ->
                    compute_potential_two_spheres(r1, r2, c, p.other * c, p.radius,
                                                  Wrap(p.obs))
               [] p.fn = "charged_sphere" ->
                    compute_potential_sphere(VZero, p.radius, p.sigma, Wrap(p.obs))
               [] OTHER -> Potential(Num(0))
    IN  [p EXCEPT !.done = TRUE, !.raised = F.raised \/ P.raised,
                  !.E = Raw(F.E), !.V = P.V[1]]

Evaluate ==
    /\ probe # None
    /\ ~probe[1].done
    /\ probe' = <<Evaluated(probe[1])>>
    /\ UNCHANGED <<estado, disabled, triggered, computed, fig>>

SpecField == InitField /\ [][Evaluate]_vars

\* The observation point of a probe lies within the sphere of the given
\* radius centred at (cx, 0, 0): distance to the centre <= radius.
Within(obs, cx, radius) == ISumSq(ISub(obs, <<cx, 0, 0>>)) <= radius * radius

\* C12: for two_spheres, at an observation point within either sphere the
\* field is the zero vector and the potential is the surface value
\* q / (4 pi epsilon_0 R) of the sphere the point lies in, whatever the other
\* sphere's charge and position.
C12_InsideTwoSpheres ==
    (probe # None /\ probe[1].done /\ probe[1].fn = "two_spheres")
      => \A p \in {probe[1]} :
         \A c \in {p.radius * p.radius * p.sigma * InvEpsilon0} :
           /\ Within(p.obs, -Quot(p.distance, 2), p.radius)
                => (~p.raised /\ p.E = IZero /\ p.V = Quot(c, p.radius))
           /\ Within(p.obs, Quot(p.distance, 2), p.radius)
                => (~p.raised /\ p.E = IZero /\ p.V = Quot(p.other * c, p.radius))

\* C13: for the sphere of radius R and surface density sigma centred at the
\* origin, with Q / (4 pi epsilon_0) = R^2 sigma / epsilon_0: at r <= R the
\* field is zero and the potential is Q / (4 pi epsilon_0 R); at r > R they
\* are the point-charge values Q r_vec / (4 pi epsilon_0 r^3), which is not
\* zero, and Q / (4 pi epsilon_0 r), which at r = R is the inside value and
\* beyond it is no larger in magnitude.
C13_SphereClosedForm ==
    (probe # None /\ probe[1].done /\ probe[1].fn = "charged_sphere")
      => \A p \in {probe[1]} :
         \A c \in {p.radius * p.radius * p.sigma * InvEpsilon0} :
         \A r2 \in {ISumSq(p.obs)} :
           /\ ~p.raised
           /\ r2 <= p.radius * p.radius
                => (p.E = IZero /\ p.V = Quot(c, p.radius))
           /\ r2 > p.radius * p.radius
                => /\ p.E = Coulomb(c, p.obs)
                   /\ p.E # IZero
                   /\ p.V = Quot(c * 100, Sqrt100(r2))
                   /\ Abs(p.V) <= Abs(Quot(c, p.radius))
           /\ r2 = p.radius * p.radius
                => p.V = Quot(c * 100, Sqrt100(r2))

\* C13, its case: the kernels have run on a point of the surface r = R of
\* the sphere of radius 1 m and returned no field and the surface potential.
C13_Witness ==
    /\ probe # None /\ probe[1].done /\ probe[1].fn = "charged_sphere"
    /\ probe[1].obs = <<40, 0, 0>> /\ probe[1].radius = 40 /\ probe[1].sigma = 1
    /\ probe[1].E = IZero
    /\ probe[1].V = 240000

\* C14: for the sphere, the ring and the cylinder, the field evaluated at
\* the centre of symmetry (the origin) is the zero vector, for every number
\* of source elements.
C14_CentreFieldZero ==
    (/\ probe # None /\ probe[1].done
     /\ probe[1].fn \in {"charged_sphere", "charged_ring", "charged_cylinder"}
     /\ probe[1].obs = IZero)
      => (~probe[1].raised /\ probe[1].E = IZero)

----------------------------------------------------------------------------
(* The loop body of the discretized kernels at the scale of its guard *)

\* Lengths in this section are in nanometres (1e-9 m): the guards test
\* distances far below the lattice unit of the sections above, where they all
\* come to "the element is at the observation point".
RingThreshold == 10
CylinderThreshold == 1000
PlatesThreshold == 1000

Discretized == {"charged_ring", "charged_cylinder", "charged_plate", "parallel_plates"}

\* Whether the loop body adds the element's term for a source-to-observation
\* distance r_mag: "if r_mag > 1e-8:" (ring), "if r_mag > 1e-6:" (cylinder,
\* parallel plates), "if r_mag == 0: continue" (plate).
Adds(kernel, r_mag) ==
    CASE kernel = "charged_ring" -> r_mag > RingThreshold
      [] kernel = "charged_cylinder" -> r_mag > CylinderThreshold
      [] kernel = "parallel_plates" -> r_mag > PlatesThreshold
      [] kernel = "charged_plate" -> r_mag # 0

\* dq / (4 pi epsilon_0) of one element, in a unit that keeps the terms whole
ElementCharge == 1000000000

\* What one pass of the loop body adds for an element at the signed distance
\* x along the x axis (r_vec = (x, 0, 0), r_mag = |x|): the x component of
\* dq * r_vec / (4 pi epsilon_0 r_mag**3) for the field, and
\* dq / (4 pi epsilon_0 r_mag) for the potential; by is the distance it
\* divided by, None if it did not divide.
ElementTerm(kernel, quantity, x) ==
    IF ~Adds(kernel, Abs(x)) THEN [by |-> None, value |-> 0]
    ELSE [by |-> Num(Abs(x)),
          value |-> IF quantity = "E"
                    THEN Quot(Quot(ElementCharge, x * x) * x, Abs(x))
                    ELSE Quot(ElementCharge, Abs(x))]

\* Signed distances of the probes: zero, below, at and above 1e-8 m and
\* 1e-6 m, and up to 2e-5 m.
ElementXs == {-2000, -1001, -1000, -999, -11, -10, -9, -5, -1, 0, 1, 5, 9, 10, 11,
              100, 999, 1000, 1001, 2000, 20000}

ElementProbes ==
    {[kernel |-> kernel, quantity |-> quantity, x |-> x, done |-> FALSE,
      by |-> None, value |-> 0] :
        kernel \in Discretized, quantity \in {"E", "V"}, x \in ElementXs}

InitElement ==
    /\ estado = InitialStore
    /\ disabled = TRUE
    /\ triggered = "none"
    /\ computed = {}
    /\ probe \in {<<p>> : p \in ElementProbes}
    /\ fig = None

\* One pass of the loop body of the probe's kernel.
AddElement ==
    /\ probe # None
    /\ ~probe[1].done
    /\ \E t \in {ElementTerm(probe[1].kernel, probe[1].quantity, probe[1].x)} :
         probe' = <<[probe[1] EXCEPT !.done = TRUE, !.by = t.by, !.value = t.value]>>
    /\ UNCHANGED <<estado, disabled, triggered, computed, fig>>

SpecElement == InitElement /\ [][AddElement]_vars

\* The smallest threshold the policy allows, 1e-8 m.
PolicyMinThreshold == 10

\* C21: in every discretized kernel, for the field and for the potential, a
\* source element at a distance below the threshold (1e-8 m at least) adds
\* exactly zero, and no term is computed by dividing by such a distance.
C21_SingularityPolicy ==
    (probe # None /\ probe[1].done /\ Abs(probe[1].x) < PolicyMinThreshold)
      => (probe[1].value = 0 /\ probe[1].by = None)

----------------------------------------------------------------------------
(* geometries/*.py: simulate, the lattice the field vectors are drawn on *)

\* Lengths in this section are exact: a length of l metres at resolution N is
\* the integer 20 * N * l (every length met is a multiple of 0.05 m or of
\* 0.8 m / N).

\* 20 * extent: 2.0 for the plate, 3.5 for the cylinder, 3.0 for the others
Extent20(kind) ==
    CASE kind = "charged_plate" -> 40
      [] kind = "charged_cylinder" -> 70
      [] OTHER -> 60

\* 20 * the floor of the step: max(.., 0.25) in two_spheres, max(.., 0.2) in
\* the others
StepFloor20(kind) == IF kind = "two_spheres" THEN 5 ELSE 4

IMax(a, b) == IF a >= b THEN a ELSE b

\* grid_step = max(0.8 * 20 / N, floor)
grid_step(kind, N) == IMax(16 * 20, StepFloor20(kind) * N)

extent(kind, N) == Extent20(kind) * N

\* np.arange(start, stop, step): start + k * step for k = 0 .. n - 1 with
\* n = ceil((stop - start) / step), none when stop <= start
arange(start, stop, step) ==
    IF stop <= start THEN <<>>
    ELSE [k \in 1..((stop - start + step - 1) \div step) |-> start + (k - 1) * step]

\* The range of each of the three axes; the lattice is the meshgrid of it with
\* itself.  charged_sphere builds np.arange(-extent, extent + grid_step,
\* grid_step), the others create_grid((-extent, extent), .., grid_step).
grid_axis(kind, N) ==
    IF kind = "charged_sphere"
    THEN arange(-extent(kind, N), extent(kind, N) + grid_step(kind, N), grid_step(kind, N))
    ELSE arange(-extent(kind, N), extent(kind, N), grid_step(kind, N))

\* Resolutions up to this one are probed.
GridMaxN == 100

InitGrid ==
    /\ estado = InitialStore
    /\ disabled = TRUE
    /\ triggered = "none"
    /\ computed = {}
    /\ probe \in {<<[kind |-> kind, N |-> N, done |-> FALSE, step |-> 0, axis |-> <<>>]>> :
                    kind \in Kinds, N \in 1..GridMaxN}
    /\ fig = None

\* simulate(N = N) of the probe's kind up to points = flatten_grid(X, Y, Z).
BuildGrid ==
    /\ probe # None
    /\ ~probe[1].done
    /\ probe' = <<[probe[1] EXCEPT !.done = TRUE,
                                   !.step = grid_step(probe[1].kind, probe[1].N),
                                   !.axis = grid_axis(probe[1].kind, probe[1].N)]>>
    /\ UNCHANGED <<estado, disabled, triggered, computed, fig>>

SpecGrid == InitGrid /\ [][BuildGrid]_vars

\* C23: for every kind and every N >= 1 the spacing of the vector-field grid
\* is max(16 / N, 0.2) (here times 20 * N: max(320, 4 * N)), the same for all
\* six kinds.
C23_GridStep ==
    (probe # None /\ probe[1].done)
      => probe[1].step = IMax(320, 4 * probe[1].N)

\* C24: for every kind and every N >= 1 no coordinate of a point of the
\* vector-field lattice exceeds the extent of the kind in absolute value.
C24_LatticeInsideCube ==
    (probe # None /\ probe[1].done)
      => \A i \in 1..Len(probe[1].axis) :
            Abs(probe[1].axis[i]) <= Extent20(probe[1].kind) * probe[1].N

====
